---- MODULE Spec2Model ----
(***************************************************************************)
(* State-machine model of libs/hbb_common/src/udp.rs: the FramedSocket     *)
(* transport (Direct / ProxySocks), its constructors, send / send_raw,     *)
(* next / next_timeout, and bind_multicast.                                *)
(***************************************************************************)
EXTENDS Integers, Sequences, FiniteSets, TLC

\* ------------------------------------------------------------------ bounds
MaxTime == 2        \* the clock runs 0..MaxTime
MaxMs == 1          \* next_timeout / new_proxy deadlines are drawn from 0..MaxMs
MaxBuf == 2         \* items the I/O driver buffers per stream
MaxArrivals == 2    \* datagrams that arrive at one transport in a run
MaxInFlight == 1    \* datagrams in flight in the network between two sockets
NetBuf == 1         \* datagrams the OS queues per socket of that network
MaxCands == 2       \* candidate addresses a local address specification resolves to
MaxNameLen == 2     \* characters of a SOCKS5 username

\* ------------------------------------------------------------- value domain
IPs == {"10.0.0.1", "10.0.0.2"}
Domains == {"peer.example"}
Unresolvable == {"overlong"}
Hosts == IPs \cup Domains \cup Unresolvable

\* a payload is a byte string
Payloads == {<<>>, <<7>>}

SockAddr(ip) == [ip |-> ip, port |-> 21116]
SocketAddrs == {SockAddr(ip) : ip \in IPs}
NoSock == [ip |-> "-", port |-> 0]
RelayAddr == [ip |-> "192.0.2.1", port |-> 1080]

\* tokio_socks::TargetAddr: Ip(SocketAddr) | Domain(host, port)
TargetIp(sa) == [kind |-> "Ip", host |-> sa.ip, port |-> sa.port]
TargetDomain(h, p) == [kind |-> "Domain", host |-> h, port |-> p]
NoTarget == [kind |-> "-", host |-> "-", port |-> 0]
TargetAddrs == {TargetIp(sa) : sa \in SocketAddrs} \cup {TargetDomain(h, 21116) : h \in Domains}

\* what a caller may pass as `addr: impl IntoTargetAddr`
TargetSpecs == {[form |-> "SocketAddr", host |-> ip, port |-> 21116] : ip \in IPs}
         \cup {[form |-> "HostPort", host |-> h, port |-> 21116] : h \in Hosts}

\* Option<ResultType<(BytesMut, TargetAddr)>>
NoneV == [tag |-> "None", data |-> <<>>, addr |-> NoTarget, err |-> "-"]
SomeOk(d, a) == [tag |-> "SomeOk", data |-> d, addr |-> a, err |-> "-"]
SomeErr(e) == [tag |-> "SomeErr", data |-> <<>>, addr |-> NoTarget, err |-> e]
\* ResultType<()> of send / send_raw, and the unwinding of unreachable!()
OkV == [tag |-> "Ok", data |-> <<>>, addr |-> NoTarget, err |-> "-"]
ErrV(e) == [tag |-> "Err", data |-> <<>>, addr |-> NoTarget, err |-> e]
PanicV == [tag |-> "Panic", data |-> <<>>, addr |-> NoTarget, err |-> "unreachable"]
NoRes == [tag |-> "-", data |-> <<>>, addr |-> NoTarget, err |-> "-"]

\* ------------------------------------------------------------ conversions
\* IntoTargetAddr: a SocketAddr is always Ok(Ip); a (host, port) pair is Ip for
\* an IP literal, Domain for a name the SOCKS5 header can carry, Err otherwise.
into_target_addr(spec) ==
  IF spec.form = "SocketAddr"
  THEN [ok |-> TRUE, val |-> TargetIp([ip |-> spec.host, port |-> spec.port])]
  ELSE IF spec.host \in IPs
  THEN [ok |-> TRUE, val |-> TargetIp([ip |-> spec.host, port |-> spec.port])]
  ELSE IF spec.host \in Domains
  THEN [ok |-> TRUE, val |-> TargetDomain(spec.host, spec.port)]
  ELSE [ok |-> FALSE, val |-> NoTarget]

SpecOfSock(sa) == [form |-> "SocketAddr", host |-> sa.ip, port |-> sa.port]

\* a protobuf message: one bytes field, possibly with a required field unset
Messages == [body : Payloads, initialized : BOOLEAN]

\* Message::write_to_bytes: Err when the message is not initialized, else the
\* wire form (field 1, length-delimited; an empty field is omitted)
write_to_bytes(msg) ==
  IF ~msg.initialized THEN [ok |-> FALSE, val |-> <<>>]
  ELSE IF msg.body = <<>> THEN [ok |-> TRUE, val |-> <<>>]
  ELSE [ok |-> TRUE, val |-> <<10, Len(msg.body)>> \o msg.body]

\* ---------------------------------------------------------------- state
VARIABLES
  mode,      \* the FramedSocket variant, fixed at construction
  rx,        \* items the underlying stream has ready, oldest first
  closed,    \* the underlying stream has terminated
  call,      \* the receive call the owner is suspended in
  last,      \* what the last completed receive call returned
  nArr,      \* datagrams that have arrived so far (they are numbered 1..nArr)
  returned,  \* numbers of the datagrams handed to the caller, in order
  seen,      \* history: a wait was cancelled at its deadline; an error was returned
  slast,     \* the last completed send / send_raw call
  net,       \* datagrams in flight between the sockets of the network
  nrx,       \* per socket: datagrams the OS has queued for it
  nlast,     \* the last next() on one of those sockets: what it returned, and what was sent
  prx,       \* lock-step pair: the ready items of the Direct and the ProxySocks stream
  pclosed,   \* lock-step pair: the streams have terminated
  plast,     \* lock-step pair: what the last call returned in each mode
  cres       \* the last constructor call: its inputs, OS steps and result

recvVars == <<mode, rx, closed, call, last, nArr, returned, seen>>
sendVars == <<slast>>
netVars == <<net, nrx, nlast>>
pairVars == <<prx, pclosed, plast>>
ctorVars == <<cres>>
vars == <<recvVars, sendVars, netVars, pairVars, ctorVars>>
notRecv == <<sendVars, netVars, pairVars, ctorVars>>

Modes == {"Direct", "ProxySocks"}

\* ------------------------------------------------------------ stream items
\* Direct: UdpFramed yields (BytesMut, SocketAddr); ProxySocks: Socks5UdpFramed
\* yields (UdpPacket {data, dst_addr}, SocketAddr of the relay).
DataItem(id, d, from, env) ==
  [kind |-> "data", id |-> id, data |-> d, from |-> from, env |-> env]
ErrItem == [kind |-> "err", id |-> 0, data |-> <<>>, from |-> NoSock, env |-> NoTarget]
NoItem == [kind |-> "-", id |-> 0, data |-> <<>>, from |-> NoSock, env |-> NoTarget]

\* f.next().await once it completes: Some(Ok(item)), Some(Err(e)) or None
PollSomeOk(item) == [tag |-> "SomeOk", item |-> item]
PollSomeErr == [tag |-> "SomeErr", item |-> ErrItem]
PollNone == [tag |-> "None", item |-> NoItem]
PollPending == [tag |-> "Pending", item |-> NoItem]

StreamReady(q, cl) == q # <<>> \/ cl
StreamPoll(q, cl) ==
  IF q # <<>>
  THEN (IF Head(q).kind = "data" THEN PollSomeOk(Head(q)) ELSE PollSomeErr)
  ELSE IF cl THEN PollNone ELSE PollPending
StreamRest(q) == IF q # <<>> THEN Tail(q) ELSE q

\* ------------------------------------------------------------ next
nextErrAsNone(m, polled) ==
  IF polled.tag = "SomeOk"
  THEN (IF m = "Direct"
        THEN SomeOk(polled.item.data, TargetIp(polled.item.from))
        ELSE SomeOk(polled.item.data, polled.item.env))
  ELSE NoneV

nextRelayAddr(m, polled) ==
  IF polled.tag = "SomeOk"
  THEN SomeOk(polled.item.data, TargetIp(polled.item.from))
  ELSE IF polled.tag = "SomeErr" THEN SomeErr("io") ELSE NoneV

next(m, polled) ==
  IF m = "Direct"
  THEN (IF polled.tag = "SomeOk"
        THEN LET a == into_target_addr(SpecOfSock(polled.item.from))
             IN IF a.ok THEN SomeOk(polled.item.data, a.val) ELSE NoneV
        ELSE IF polled.tag = "SomeErr" THEN SomeErr("io")
        ELSE NoneV)
  ELSE (IF polled.tag = "SomeOk"
        THEN SomeOk(polled.item.data, polled.item.env)
        ELSE IF polled.tag = "SomeErr" THEN SomeErr("io")
        ELSE NoneV)

\* ------------------------------------------------------------ next_timeout
\* tokio::time::timeout at the poll that decides it: the wrapped future is
\* polled first, the timer only if it is still pending.
\* The outcome is Ok(inner result), Err(Elapsed), or still pending.
TimeoutOk(v) == [state |-> "Ok", val |-> v]
Elapsed == [state |-> "Elapsed", val |-> NoneV]
TimeoutPending == [state |-> "Pending", val |-> NoneV]

time_timeoutTimerFirst(expired, polled, inner) ==
  IF expired THEN Elapsed
  ELSE IF polled.tag # "Pending" THEN TimeoutOk(inner)
  ELSE TimeoutPending

time_timeout(expired, polled, inner) ==
  IF polled.tag # "Pending" THEN TimeoutOk(inner)
  ELSE IF expired THEN Elapsed
  ELSE TimeoutPending

next_timeoutFramesOnly(t) ==
  IF t.state = "Ok" /\ t.val.tag = "SomeOk" THEN t.val ELSE NoneV

\* if let Ok(res) = timeout(..).await { res } else { None }
next_timeout(t) == IF t.state = "Ok" THEN t.val ELSE NoneV

\* ------------------------------------------------------------ receive side
Idle == [op |-> "-", ms |-> 0, elapsed |-> 0]
NoLast == [op |-> "-", res |-> NoRes, polled |-> PollPending, ms |-> 0, waited |-> 0]

InitRecv ==
  /\ mode \in Modes
  /\ rx = <<>>
  /\ closed = FALSE
  /\ call = Idle
  /\ last = NoLast
  /\ nArr = 0
  /\ returned = <<>>
  /\ seen = [cancelled |-> FALSE, erred |-> FALSE]

\* the numbers of the datagrams in a stream buffer, oldest first
RECURSIVE DataIds(_)
DataIds(q) ==
  IF q = <<>> THEN <<>>
  ELSE IF Head(q).kind = "data" THEN <<Head(q).id>> \o DataIds(Tail(q))
  ELSE DataIds(Tail(q))

\* the driver queues a datagram (the i-th to arrive carries the payload <<i>>): in Direct mode the OS reports its source, in
\* ProxySocks mode it comes from the relay, wrapped with the address the relay reports
Arrive(s, e) ==
  /\ ~closed /\ Len(rx) < MaxBuf /\ nArr < MaxArrivals
  /\ rx' = Append(rx, IF mode = "Direct"
                      THEN DataItem(nArr + 1, <<nArr + 1>>, s, NoTarget)
                      ELSE DataItem(nArr + 1, <<nArr + 1>>, RelayAddr, e))
  /\ nArr' = nArr + 1
  /\ UNCHANGED <<mode, closed, call, last, returned, seen, notRecv>>

\* the driver reports an I/O error on the stream
ArriveErr ==
  /\ ~closed /\ Len(rx) < MaxBuf
  /\ rx' = Append(rx, ErrItem)
  /\ UNCHANGED <<mode, closed, call, last, nArr, returned, seen, notRecv>>

\* the underlying stream terminates
Close ==
  /\ ~closed
  /\ closed' = TRUE
  /\ UNCHANGED <<mode, rx, call, last, nArr, returned, seen, notRecv>>

Deliver(res, polled) ==
  IF res.tag = "SomeOk" /\ polled.tag = "SomeOk"
  THEN Append(returned, polled.item.id) ELSE returned

CallNext ==
  /\ call = Idle
  /\ call' = [op |-> "next", ms |-> 0, elapsed |-> 0]
  /\ UNCHANGED <<mode, rx, closed, last, nArr, returned, seen, notRecv>>

\* next() resumes once the stream has something for it
CompleteNext ==
  /\ call.op = "next"
  /\ StreamReady(rx, closed)
  /\ LET polled == StreamPoll(rx, closed)
         res == next(mode, polled)
     IN /\ last' = [op |-> "next", res |-> res, polled |-> polled,
                    ms |-> 0, waited |-> call.elapsed]
        /\ returned' = Deliver(res, polled)
        /\ seen' = IF res.tag = "SomeErr" THEN [seen EXCEPT !.erred = TRUE] ELSE seen
  /\ rx' = StreamRest(rx)
  /\ call' = Idle
  /\ UNCHANGED <<mode, closed, nArr, notRecv>>

CallNextTimeout(ms) ==
  /\ call = Idle
  /\ call' = [op |-> "next_timeout", ms |-> ms, elapsed |-> 0]
  /\ UNCHANGED <<mode, rx, closed, last, nArr, returned, seen, notRecv>>

\* a millisecond passes while the owner waits
Tick ==
  /\ call.op = "next_timeout"
  /\ call.elapsed < MaxTime
  /\ call' = [call EXCEPT !.elapsed = @ + 1]
  /\ UNCHANGED <<mode, rx, closed, last, nArr, returned, seen, notRecv>>

\* the task is polled and the race is decided
PollNextTimeout ==
  /\ call.op = "next_timeout"
  /\ LET polled == StreamPoll(rx, closed)
         t == time_timeout(call.elapsed >= call.ms, polled, next(mode, polled))
         res == next_timeout(t)
     IN /\ t.state # "Pending"
        /\ last' = [op |-> "next_timeout", res |-> res, polled |-> polled,
                    ms |-> call.ms, waited |-> call.elapsed]
        /\ returned' = Deliver(res, polled)
        /\ seen' = IF t.state = "Elapsed" THEN [seen EXCEPT !.cancelled = TRUE]
                   ELSE IF res.tag = "SomeErr" THEN [seen EXCEPT !.erred = TRUE]
                   ELSE seen
  /\ rx' = StreamRest(rx)
  /\ call' = Idle
  /\ UNCHANGED <<mode, closed, nArr, notRecv>>

NextRecv ==
  \/ \E s \in SocketAddrs, e \in TargetAddrs : Arrive(s, e)
  \/ ArriveErr
  \/ Close
  \/ CallNext
  \/ CompleteNext
  \/ \E ms \in 0..MaxMs : CallNextTimeout(ms)
  \/ Tick
  \/ PollNextTimeout

\* ------------------------------------------------------------ send side
\* one datagram handed to the socket (Direct) or to the relay session (ProxySocks)
Datagram(bytes, addr) == [data |-> bytes, to |-> addr]

\* f.send(item).await: the sink writes the item as one datagram; io tells whether
\* the OS accepted it
f_sendRetry(item, io) ==
  [res |-> IF io THEN OkV ELSE ErrV("io"),
   writes |-> IF io THEN <<item>> ELSE <<item, item>>]

f_send(item, io) ==
  [res |-> IF io THEN OkV ELSE ErrV("io"), writes |-> <<item>>]

Unwritten(res) == [res |-> res, writes |-> <<>>]

send(m, msg, addr, io) ==
  LET a == into_target_addr(addr)
      send_data == write_to_bytes(msg)
  IN IF ~a.ok THEN Unwritten(ErrV("addr"))
     ELSE IF ~send_data.ok THEN Unwritten(ErrV("ser"))
     ELSE IF m = "Direct"
     THEN (IF a.val.kind = "Ip"
           THEN f_send(Datagram(send_data.val, a.val), io)
           ELSE Unwritten(PanicV))
     ELSE f_send(Datagram(send_data.val, a.val), io)

send_rawEncoded(m, bytes, addr, io) ==
  send(m, [body |-> bytes, initialized |-> TRUE], addr, io)

send_rawRecoverable(m, bytes, addr, io) ==
  LET a == into_target_addr(addr)
  IN IF ~a.ok THEN Unwritten(ErrV("addr"))
     ELSE IF m = "Direct" /\ a.val.kind # "Ip" THEN Unwritten(ErrV("addr"))
     ELSE f_send(Datagram(bytes, a.val), io)

send_raw(m, bytes, addr, io) ==
  LET a == into_target_addr(addr)
  IN IF ~a.ok THEN Unwritten(ErrV("addr"))
     ELSE IF m = "Direct"
     THEN (IF a.val.kind = "Ip"
           THEN f_send(Datagram(bytes, a.val), io)
           ELSE Unwritten(PanicV))
     ELSE f_send(Datagram(bytes, a.val), io)

NoSend == [op |-> "-", msg |-> [body |-> <<>>, initialized |-> TRUE],
           addr |-> [form |-> "-", host |-> "-", port |-> 0],
           io |-> TRUE, res |-> NoRes, writes |-> <<>>]

InitSend ==
  /\ InitRecv
  /\ slast = NoSend

\* a panic unwinds the owning task: nothing is called on the transport afterwards
Send(msg, addr, io) ==
  /\ slast.res # PanicV
  /\ LET r == send(mode, msg, addr, io)
     IN slast' = [op |-> "send", msg |-> msg, addr |-> addr, io |-> io,
                  res |-> r.res, writes |-> r.writes]
  /\ UNCHANGED <<recvVars, netVars, pairVars, ctorVars>>

SendRaw(bytes, addr, io) ==
  /\ slast.res # PanicV
  /\ LET r == send_raw(mode, bytes, addr, io)
     IN slast' = [op |-> "send_raw", msg |-> [body |-> bytes, initialized |-> TRUE],
                  addr |-> addr, io |-> io, res |-> r.res, writes |-> r.writes]
  /\ UNCHANGED <<recvVars, netVars, pairVars, ctorVars>>

NextSend ==
  \/ \E msg \in Messages, addr \in TargetSpecs, io \in BOOLEAN : Send(msg, addr, io)
  \/ \E bytes \in Payloads, addr \in TargetSpecs, io \in BOOLEAN : SendRaw(bytes, addr, io)

\* ------------------------------------------------------------ two sockets
\* Two Direct transports, each bound to an address of its own, and the
\* network between them: a written datagram is in flight until the OS of the
\* destination queues it for the socket bound there, or it is lost.
Sockets == {"A", "B"}
local_addr(t) == IF t = "A" THEN SockAddr("10.0.0.1") ELSE SockAddr("10.0.0.2")
IpTargetSpecs == {a \in TargetSpecs : into_target_addr(a).ok /\ into_target_addr(a).val.kind = "Ip"}

NoNetLast == [at |-> "-", res |-> NoRes, sent |-> <<>>, by |-> "-"]

InitNet ==
  /\ net = {}
  /\ nrx = [t \in Sockets |-> <<>>]
  /\ nlast = NoNetLast

\* what the OS puts on the wire for the writes of one call: the datagram, its
\* source (the sender's bound address), and for the record what the caller passed
OnWire(t, writes, bytes) ==
  {[data |-> writes[i].data, dst |-> writes[i].to, src |-> local_addr(t),
    sent |-> bytes, by |-> t] : i \in 1..Len(writes)}

NetSendRaw(t, bytes, addr, io) ==
  /\ Cardinality(net) < MaxInFlight
  /\ LET r == send_raw("Direct", bytes, addr, io)
     IN net' = IF r.res = OkV THEN net \cup OnWire(t, r.writes, bytes) ELSE net
  /\ UNCHANGED <<nrx, nlast, recvVars, sendVars, pairVars, ctorVars>>

\* the OS of the destination queues the datagram for the socket bound there
NetDeliver(d, t) ==
  /\ d \in net
  /\ d.dst = TargetIp(local_addr(t))
  /\ Len(nrx[t]) < NetBuf
  /\ net' = net \ {d}
  /\ nrx' = [nrx EXCEPT ![t] = Append(@, [item |-> DataItem(0, d.data, d.src, NoTarget),
                                         sent |-> d.sent, by |-> d.by])]
  /\ UNCHANGED <<nlast, recvVars, sendVars, pairVars, ctorVars>>

NetLose(d) ==
  /\ d \in net
  /\ net' = net \ {d}
  /\ UNCHANGED <<nrx, nlast, recvVars, sendVars, pairVars, ctorVars>>

NetNext(t) ==
  /\ nrx[t] # <<>>
  /\ nlast' = [at |-> t, res |-> next("Direct", PollSomeOk(Head(nrx[t]).item)),
               sent |-> Head(nrx[t]).sent, by |-> Head(nrx[t]).by]
  /\ nrx' = [nrx EXCEPT ![t] = Tail(@)]
  /\ UNCHANGED <<net, recvVars, sendVars, pairVars, ctorVars>>

NextNet ==
  \/ \E t \in Sockets, bytes \in Payloads, addr \in IpTargetSpecs, io \in BOOLEAN :
       NetSendRaw(t, bytes, addr, io)
  \/ \E d \in net, t \in Sockets : NetDeliver(d, t)
  \/ \E d \in net : NetLose(d)
  \/ \E t \in Sockets : NetNext(t)

\* ------------------------------------------------------------ lock-step pair
\* A Direct and a ProxySocks transport driven by the same calls in the same
\* environment: every datagram a peer sends reaches the Direct socket from the
\* peer, and the ProxySocks session from the relay in an envelope naming the peer.
NoPairLast ==
  [op |-> "-", addr |-> [form |-> "-", host |-> "-", port |-> 0],
   polled |-> [m \in Modes |-> PollPending],
   res |-> [m \in Modes |-> NoRes], writes |-> [m \in Modes |-> <<>>]]

InitPair ==
  /\ prx = [m \in Modes |-> <<>>]
  /\ pclosed = FALSE
  /\ plast = NoPairLast

PairArrive(d, s) ==
  /\ ~pclosed
  /\ Len(prx["Direct"]) < MaxBuf
  /\ prx' = [m \in Modes |->
               Append(prx[m], IF m = "Direct" THEN DataItem(0, d, s, NoTarget)
                              ELSE DataItem(0, d, RelayAddr, TargetIp(s)))]
  /\ UNCHANGED <<pclosed, plast, recvVars, sendVars, netVars, ctorVars>>

PairArriveErr ==
  /\ ~pclosed
  /\ Len(prx["Direct"]) < MaxBuf
  /\ prx' = [m \in Modes |-> Append(prx[m], ErrItem)]
  /\ UNCHANGED <<pclosed, plast, recvVars, sendVars, netVars, ctorVars>>

PairClose ==
  /\ ~pclosed
  /\ pclosed' = TRUE
  /\ UNCHANGED <<prx, plast, recvVars, sendVars, netVars, ctorVars>>

\* the Direct task has not been unwound by a panic
PairAlive == plast.res["Direct"] # PanicV

PairNext ==
  /\ PairAlive
  /\ StreamReady(prx["Direct"], pclosed)
  /\ plast' = [op |-> "next", addr |-> NoPairLast.addr,
               polled |-> [m \in Modes |-> StreamPoll(prx[m], pclosed)],
               res |-> [m \in Modes |-> next(m, StreamPoll(prx[m], pclosed))],
               writes |-> [m \in Modes |-> <<>>]]
  /\ prx' = [m \in Modes |-> StreamRest(prx[m])]
  /\ UNCHANGED <<pclosed, recvVars, sendVars, netVars, ctorVars>>

\* the deciding poll of next_timeout; expired: the deadline has passed by then
PairNextTimeout(expired) ==
  /\ PairAlive
  /\ StreamReady(prx["Direct"], pclosed) \/ expired
  /\ plast' = [op |-> "next_timeout", addr |-> NoPairLast.addr,
               polled |-> [m \in Modes |-> StreamPoll(prx[m], pclosed)],
               res |-> [m \in Modes |->
                          LET polled == StreamPoll(prx[m], pclosed)
                          IN next_timeout(time_timeout(expired, polled, next(m, polled)))],
               writes |-> [m \in Modes |-> <<>>]]
  /\ prx' = [m \in Modes |-> StreamRest(prx[m])]
  /\ UNCHANGED <<pclosed, recvVars, sendVars, netVars, ctorVars>>

PairSend(msg, addr, io) ==
  /\ PairAlive
  /\ plast' = [op |-> "send", addr |-> addr,
               polled |-> NoPairLast.polled,
               res |-> [m \in Modes |-> send(m, msg, addr, io).res],
               writes |-> [m \in Modes |-> send(m, msg, addr, io).writes]]
  /\ UNCHANGED <<prx, pclosed, recvVars, sendVars, netVars, ctorVars>>

PairSendRaw(bytes, addr, io) ==
  /\ PairAlive
  /\ plast' = [op |-> "send_raw", addr |-> addr,
               polled |-> NoPairLast.polled,
               res |-> [m \in Modes |-> send_raw(m, bytes, addr, io).res],
               writes |-> [m \in Modes |-> send_raw(m, bytes, addr, io).writes]]
  /\ UNCHANGED <<prx, pclosed, recvVars, sendVars, netVars, ctorVars>>

NextPair ==
  \/ \E d \in Payloads, s \in SocketAddrs : PairArrive(d, s)
  \/ PairArriveErr
  \/ PairClose
  \/ PairNext
  \/ \E expired \in BOOLEAN : PairNextTimeout(expired)
  \/ \E msg \in Messages, addr \in TargetSpecs, io \in BOOLEAN : PairSend(msg, addr, io)
  \/ \E bytes \in Payloads, addr \in TargetSpecs, io \in BOOLEAN : PairSendRaw(bytes, addr, io)

\* ------------------------------------------------------------ constructors
\* An address of the socket layer: family, address bytes, port.
V4(ip, port) == [fam |-> "v4", ip |-> ip, port |-> port]
V6(ip, port) == [fam |-> "v6", ip |-> ip, port |-> port]
NoAddr == [fam |-> "-", ip |-> <<>>, port |-> 0]
Wildcard(port) == V4(<<0, 0, 0, 0>>, port)

\* one call into the OS (or the assertion), its address argument, and whether it succeeded
Step(op, addr, ok) == [op |-> op, addr |-> addr, ok |-> ok]
Ops(steps) == [i \in 1..Len(steps) |-> steps[i].op]

\* the steps actually performed: the plan up to and including the first that fails
RECURSIVE Perform(_)
Perform(plan) ==
  IF plan = <<>> THEN <<>>
  ELSE IF ~Head(plan).ok THEN <<Head(plan)>>
  ELSE <<Head(plan)>> \o Perform(Tail(plan))

Failed(steps) == steps # <<>> /\ ~steps[Len(steps)].ok

CtorOk(m, addr) == [tag |-> "Ok", mode |-> m, bound |-> addr, err |-> "-"]
CtorErr(e) == [tag |-> "Err", mode |-> "-", bound |-> NoAddr, err |-> e]
CtorPanic(e) == [tag |-> "Panic", mode |-> "-", bound |-> NoAddr, err |-> e]

\* Ipv4Addr::is_multicast: the first octet is 224..239
is_multicast(ip) == ip[1] \div 16 = 14

\* ---- bind_multicast(maddr): maddr is NoAddr for None; fail names the OS call
\* the environment lets fail, "-" if none does
bind_multicastLateCheck(maddr, fail) ==
  LET step(op, a) == Step(op, a, op # fail)
      plan == IF maddr # NoAddr
              THEN << step("socket", NoAddr), step("set_reuse_address", NoAddr),
                      step("set_read_timeout", NoAddr),
                      step("join_multicast_v4", maddr),
                      step("set_multicast_loop_v4", NoAddr),
                      step("bind", Wildcard(maddr.port)),
                      Step("assert", maddr, is_multicast(maddr.ip)),
                      step("from_std", NoAddr) >>
              ELSE << step("socket", NoAddr) >>
      done == Perform(plan)
  IN [steps |-> done,
      res |-> IF ~Failed(done) THEN CtorOk("Direct", Wildcard(maddr.port))
              ELSE IF done[Len(done)].op = "assert" THEN CtorPanic("Must be multcast address")
              ELSE CtorErr(done[Len(done)].op)]

bind_multicast(maddr, fail) ==
  LET step(op, a) == Step(op, a, op # fail)
      plan == << step("socket", NoAddr), step("set_reuse_address", NoAddr),
                 step("set_read_timeout", NoAddr) >>
              \o (IF maddr # NoAddr
                  THEN << Step("assert", maddr, is_multicast(maddr.ip)),
                          step("join_multicast_v4", maddr),
                          step("set_multicast_loop_v4", NoAddr),
                          step("bind", Wildcard(maddr.port)) >>
                  ELSE << step("set_multicast_if_v4", Wildcard(0)),
                          step("bind", Wildcard(0)) >>)
              \o << step("from_std", NoAddr) >>
      done == Perform(plan)
      bound == IF maddr # NoAddr THEN Wildcard(maddr.port) ELSE Wildcard(0)
  IN [steps |-> done,
      res |-> IF ~Failed(done) THEN CtorOk("Direct", bound)
              ELSE IF done[Len(done)].op = "assert" THEN CtorPanic("Must be multcast address")
              ELSE CtorErr(done[Len(done)].op)]

\* ---- new_socket(addr, reuse): env.unix: the build has cfg(unix); env.fail: the
\* OS call that fails other than bind; env.inuse: the addresses bind refuses
new_socket(addr, reuse, env) ==
  LET step(op, a) == Step(op, a, op # env.fail)
  IN Perform(<< step("socket", addr) >>
             \o (IF reuse /\ env.unix THEN << step("set_reuse_port", addr) >> ELSE <<>>)
             \o (IF reuse THEN << step("set_reuse_address", addr) >> ELSE <<>>)
             \o << Step("bind", addr, addr \notin env.inuse) >>)

\* ---- new_reuse(addr): resolved is the outcome of addr.to_socket_addrs()
RECURSIVE new_reuseFallback(_, _)
new_reuseFallback(resolved, env) ==
  IF ~resolved.ok THEN [steps |-> <<>>, res |-> CtorErr("to_socket_addrs")]
  ELSE IF resolved.addrs = <<>>
  THEN [steps |-> <<>>, res |-> CtorErr("could not resolve to any address")]
  ELSE LET addr == Head(resolved.addrs)
           sock == new_socket(addr, TRUE, env)
           rest == new_reuseFallback([resolved EXCEPT !.addrs = Tail(@)], env)
       IN IF Failed(sock)
          THEN [steps |-> sock \o rest.steps, res |-> rest.res]
          ELSE [steps |-> Append(sock, Step("from_std", addr, TRUE)),
                res |-> CtorOk("Direct", addr)]

new_reuse(resolved, env) ==
  IF ~resolved.ok THEN [steps |-> <<>>, res |-> CtorErr("to_socket_addrs")]
  ELSE IF resolved.addrs = <<>>
  THEN [steps |-> <<>>, res |-> CtorErr("could not resolve to any address")]
  ELSE LET addr == Head(resolved.addrs)
           sock == new_socket(addr, TRUE, env)
           from_std == Step("from_std", addr, env.fail # "from_std")
       IN IF Failed(sock)
          THEN [steps |-> sock, res |-> CtorErr(sock[Len(sock)].op)]
          ELSE IF ~from_std.ok
          THEN [steps |-> Append(sock, from_std), res |-> CtorErr("from_std")]
          ELSE [steps |-> Append(sock, from_std), res |-> CtorOk("Direct", addr)]

\* ---- new_proxy
\* a string is a sequence of characters; char::is_whitespace
IsSpace(c) == c \in {" ", "\t"}
RECURSIVE TrimStart(_)
TrimStart(str) ==
  IF str # <<>> /\ IsSpace(Head(str)) THEN TrimStart(Tail(str)) ELSE str
RECURSIVE TrimEnd(_)
TrimEnd(str) ==
  IF str # <<>> /\ IsSpace(str[Len(str)]) THEN TrimEnd(SubSeq(str, 1, Len(str) - 1)) ELSE str
\* str::trim
trim(str) == TrimEnd(TrimStart(str))
is_empty(str) == Len(str) = 0

\* hbb_common::timeout(ms, future): the future's output if it completes within
\* ms milliseconds (took: how long it takes), the Elapsed error otherwise
timeout(ms, took, output) ==
  IF took <= ms THEN [ok |-> TRUE, val |-> output] ELSE [ok |-> FALSE, val |-> output]

\* hs: how long the handshake with the relay takes, and whether it succeeds
new_proxyNoTrim(username, password, ms_timeout, hs) ==
  LET handshake == IF is_empty(username) THEN "connect" ELSE "connect_with_password"
      t == timeout(ms_timeout, hs.took, hs.ok)
  IN [steps |-> << [op |-> handshake, addr |-> NoAddr, ok |-> t.ok /\ t.val] >>,
      res |-> IF ~t.ok THEN CtorErr("timeout")
              ELSE IF ~t.val THEN CtorErr("proxy")
              ELSE CtorOk("ProxySocks", NoAddr)]

new_proxy(username, password, ms_timeout, hs) ==
  LET handshake == IF is_empty(trim(username)) THEN "connect" ELSE "connect_with_password"
      t == timeout(ms_timeout, hs.took, hs.ok)
  IN [steps |-> << [op |-> handshake, addr |-> NoAddr, ok |-> t.ok /\ t.val] >>,
      res |-> IF ~t.ok THEN CtorErr("timeout")
              ELSE IF ~t.val THEN CtorErr("proxy")
              ELSE CtorOk("ProxySocks", NoAddr)]

\* ---- inputs
GroupAddrs == {NoAddr, V4(<<239, 255, 42, 98>>, 5001), V4(<<224, 0, 0, 1>>, 5001),
               V4(<<192, 168, 1, 7>>, 5001), V4(<<223, 255, 255, 255>>, 5001),
               V4(<<240, 0, 0, 1>>, 5001)}
MulticastCalls == {"-", "socket", "set_reuse_address", "set_read_timeout",
                   "join_multicast_v4", "set_multicast_loop_v4", "set_multicast_if_v4",
                   "bind", "from_std"}
LocalAddrs == {V4(<<0, 0, 0, 0>>, 21116), V4(<<127, 0, 0, 1>>, 21116),
               V6(<<0, 0, 0, 0, 0, 0, 0, 1>>, 21116)}
RECURSIVE SeqsUpTo(_, _)
SeqsUpTo(S, n) ==
  IF n = 0 THEN {<<>>}
  ELSE SeqsUpTo(S, n - 1) \cup {Append(q, x) : q \in SeqsUpTo(S, n - 1), x \in S}
Resolutions == {[ok |-> FALSE, addrs |-> <<>>]}
          \cup {[ok |-> TRUE, addrs |-> q] : q \in SeqsUpTo(LocalAddrs, MaxCands)}
SocketEnvs == [unix : BOOLEAN,
               fail : {"-", "socket", "set_reuse_port", "set_reuse_address", "from_std"},
               inuse : SUBSET LocalAddrs]
Usernames == SeqsUpTo({" ", "\t", "u"}, MaxNameLen)
Handshakes == [took : 0..MaxTime, ok : BOOLEAN]

\* one constructor call per run: it yields the transport, or fails
NoCtor == [ctor |-> "-", steps |-> <<>>, res |-> CtorErr("-")]

InitCtor == cres = NoCtor

BindMulticast(maddr, fail) ==
  /\ cres.ctor = "-"
  /\ LET r == bind_multicast(maddr, fail)
     IN cres' = [ctor |-> "bind_multicast", maddr |-> maddr, fail |-> fail,
                 steps |-> r.steps, res |-> r.res]
  /\ UNCHANGED <<recvVars, sendVars, netVars, pairVars>>

NewReuse(resolved, env) ==
  /\ cres.ctor = "-"
  /\ LET r == new_reuse(resolved, env)
     IN cres' = [ctor |-> "new_reuse", resolved |-> resolved, env |-> env,
                 steps |-> r.steps, res |-> r.res]
  /\ UNCHANGED <<recvVars, sendVars, netVars, pairVars>>

NewProxy(username, password, ms_timeout, hs) ==
  /\ cres.ctor = "-"
  /\ LET r == new_proxy(username, password, ms_timeout, hs)
     IN cres' = [ctor |-> "new_proxy", username |-> username, password |-> password,
                 ms_timeout |-> ms_timeout, hs |-> hs,
                 steps |-> r.steps, res |-> r.res]
  /\ UNCHANGED <<recvVars, sendVars, netVars, pairVars>>

NextCtor ==
  \/ \E maddr \in GroupAddrs, fail \in MulticastCalls : BindMulticast(maddr, fail)
  \/ \E resolved \in Resolutions, env \in SocketEnvs : NewReuse(resolved, env)
  \/ \E username \in Usernames, ms \in 0..MaxMs, hs \in Handshakes :
       NewProxy(username, <<"p", "w">>, ms, hs)

\* ------------------------------------------------------------ specification
\* each specification exercises one part of the program; the rest stays as constructed
IdleSend == slast = NoSend

Init == InitRecv /\ IdleSend /\ InitNet /\ InitPair /\ InitCtor
Next == NextRecv
Spec == Init /\ [][Next]_vars

IdleRecv ==
  /\ mode = "Direct" /\ rx = <<>> /\ closed = FALSE /\ call = Idle /\ last = NoLast
  /\ nArr = 0 /\ returned = <<>> /\ seen = [cancelled |-> FALSE, erred |-> FALSE]

NetInit == InitNet /\ IdleRecv /\ IdleSend /\ InitPair /\ InitCtor
SpecNet == NetInit /\ [][NextNet]_vars

PairInit == InitPair /\ IdleRecv /\ IdleSend /\ InitNet /\ InitCtor
SpecPair == PairInit /\ [][NextPair]_vars

CtorInit == InitCtor /\ IdleRecv /\ IdleSend /\ InitNet /\ InitPair
SpecCtor == CtorInit /\ [][NextCtor]_vars

SendInit == InitSend /\ InitNet /\ InitPair /\ InitCtor
SpecSend == SendInit /\ [][NextSend]_vars

\* ------------------------------------------------------------ receive claims
\* C1: next_timeout(ms) returns exactly what next() returns (a frame, an error,
\* or None for a terminated stream) whenever next() completes at the deciding
\* poll, and None when the deadline has elapsed with next() still pending; a
\* deadline-caused None is never returned before ms milliseconds have elapsed.
C1_NextTimeoutIsNextOrDeadline ==
  last.op = "next_timeout" =>
    /\ last.polled.tag # "Pending" => last.res = next(mode, last.polled)
    /\ last.polled.tag = "Pending" => last.res = NoneV /\ last.waited >= last.ms

C1_Witness ==
  /\ last.op = "next_timeout"
  /\ last.polled.tag = "Pending"
  /\ last.ms > 0
  /\ last.waited >= last.ms

\* C2: next() returns None only when the underlying stream has terminated for
\* good; an I/O error of the stream is returned as Some(Err), never as None, and
\* returning it consumes nothing but the error: mode, termination flag and the
\* datagrams queued behind it are as they were, so a later next() returns them.
C2_NoneOnlyWhenClosed ==
  /\ [](last.op = "next" =>
          /\ last.res = NoneV => last.polled.tag = "None" /\ closed /\ rx = <<>>
          /\ last.polled.tag = "SomeErr" => last.res.tag = "SomeErr"
          /\ last.polled.tag = "SomeOk" => last.res.tag = "SomeOk")
  /\ [][(call.op = "next" /\ call'.op = "-" /\ last'.res.tag = "SomeErr") =>
          /\ mode' = mode /\ closed' = closed
          /\ rx # <<>> /\ rx' = Tail(rx) /\ returned' = returned]_vars

C2_Witness ==
  /\ seen.erred
  /\ last.op = "next"
  /\ last.res.tag = "SomeOk"
  /\ last.res.data = <<2>>

\* C8: cancelling a wait at its deadline neither loses nor duplicates datagrams:
\* the datagrams handed to the caller followed by those still buffered are
\* exactly the datagrams that arrived, each once, in arrival order.
C8_NoLossNoDuplication ==
  returned \o DataIds(rx) = [i \in 1..nArr |-> i]

C8_Witness ==
  /\ seen.cancelled
  /\ returned = <<1, 2>>
  /\ last.op = "next" /\ last.res.tag = "SomeOk" /\ last.res.data = <<2>>

\* ------------------------------------------------------------ send claims
Resolved == into_target_addr(slast.addr)
\* the bytes the call is to put on the wire
Wire == IF slast.op = "send" THEN write_to_bytes(slast.msg).val ELSE slast.msg.body
\* the call gets as far as the socket: its target resolves and its message serializes
ReachesSocket ==
  /\ slast.op # "-"
  /\ Resolved.ok
  /\ slast.op = "send" => write_to_bytes(slast.msg).ok

\* C3 as stated: in Direct mode every send / send_raw whose target resolves to a
\* domain name panics (it does not return an error) and writes nothing, while one
\* whose target resolves to an IP endpoint is written; in ProxySocks mode every
\* resolvable target is written to the relay and nothing panics. (The abort
\* clause is stated for every call, as the claim does; the "is transmitted"
\* clauses are read for the calls that have bytes to transmit.)
C3_AsStated ==
  /\ slast.op # "-" /\ Resolved.ok /\ mode = "Direct" /\ Resolved.val.kind = "Domain" =>
       slast.res = PanicV /\ slast.writes = <<>>
  /\ ReachesSocket /\ mode = "Direct" /\ Resolved.val.kind = "Ip" =>
       slast.res # PanicV /\ slast.writes = <<Datagram(Wire, Resolved.val)>>
  /\ ReachesSocket /\ mode = "ProxySocks" =>
       slast.res # PanicV /\ slast.writes = <<Datagram(Wire, Resolved.val)>>

\* C3 amended: the same, for the calls that get as far as the socket (send_raw
\* always, send when its message serializes); a send whose message fails to
\* serialize returns that error in both modes, whatever the target, and writes nothing.
C3_DomainTargetFatalInDirect ==
  /\ ReachesSocket =>
       /\ mode = "Direct" /\ Resolved.val.kind = "Domain" =>
            slast.res = PanicV /\ slast.writes = <<>>
       /\ mode = "Direct" /\ Resolved.val.kind = "Ip" =>
            slast.res # PanicV /\ slast.writes = <<Datagram(Wire, Resolved.val)>>
       /\ mode = "ProxySocks" =>
            slast.res # PanicV /\ slast.writes = <<Datagram(Wire, Resolved.val)>>
  /\ slast.op = "send" /\ Resolved.ok /\ ~write_to_bytes(slast.msg).ok =>
       slast.res = ErrV("ser") /\ slast.writes = <<>>

C3_Witness ==
  /\ mode = "Direct" /\ slast.op = "send_raw"
  /\ Resolved.ok /\ Resolved.val.kind = "Domain"
  /\ slast.res = PanicV

\* C10: a send / send_raw call writes at most one datagram and never retries: a
\* successful call has written exactly one; a call whose target does not resolve,
\* or (send) whose message does not serialize, returns an error having written
\* nothing; a failed write is returned as the error, after that one attempt.
C10_AtMostOneWrite ==
  slast.op # "-" =>
    /\ Len(slast.writes) <= 1
    /\ slast.res = OkV => Len(slast.writes) = 1 /\ slast.io
    /\ ~Resolved.ok => slast.res = ErrV("addr") /\ slast.writes = <<>>
    /\ slast.op = "send" /\ ~write_to_bytes(slast.msg).ok =>
         slast.res.tag = "Err" /\ slast.writes = <<>>
    /\ slast.res = ErrV("io") => Len(slast.writes) = 1 /\ ~slast.io
    /\ ReachesSocket /\ slast.res # PanicV /\ ~slast.io => slast.res = ErrV("io")

C10_Witness ==
  /\ slast.op = "send" /\ slast.res = ErrV("io")
  /\ Len(slast.writes) = 1

PairResolved == into_target_addr(plast.addr)
PairSame ==
  /\ plast.res["Direct"] = plast.res["ProxySocks"]
  /\ plast.writes["Direct"] = plast.writes["ProxySocks"]
\* in ProxySocks mode a returned frame names the endpoint of the relay envelope
PairEnvelope ==
  plast.res["ProxySocks"].tag = "SomeOk" =>
    /\ plast.res["ProxySocks"].addr = plast.polled["ProxySocks"].item.env
    /\ plast.res["ProxySocks"].addr # TargetIp(plast.polled["ProxySocks"].item.from)

\* C9 as stated: after every sequence of send / send_raw and next / next_timeout
\* calls the Direct and the ProxySocks transport have given the caller the same
\* results, and next() in ProxySocks mode names the sender of the relay
\* envelope, not the relay.
C9_AsStated == PairSame /\ PairEnvelope

\* C9 amended: the same for every sequence whose send targets resolve to IP
\* endpoints; the two modes differ exactly on a send / send_raw that reaches the
\* socket with a domain-name target, where Direct panics and ProxySocks writes.
C9_ModeTransparency ==
  /\ PairEnvelope
  /\ ~PairSame =>
       /\ plast.op \in {"send", "send_raw"}
       /\ PairResolved.ok /\ PairResolved.val.kind = "Domain"
       /\ plast.res["Direct"] = PanicV
       /\ plast.res["ProxySocks"] # PanicV

C9_Witness ==
  /\ plast.op = "next"
  /\ plast.res["ProxySocks"].tag = "SomeOk"
  /\ plast.res["ProxySocks"].data = <<7>>
  /\ PairSame

\* ------------------------------------------------------------ constructor claims
HasOp(steps, op) == \E i \in 1..Len(steps) : steps[i].op = op
BadGroup ==
  /\ cres.ctor = "bind_multicast"
  /\ cres.maddr # NoAddr
  /\ ~is_multicast(cres.maddr.ip)
CreationCalls == {"socket", "set_reuse_address", "set_read_timeout"}

\* C4 as stated: bind_multicast with a supplied group address that is not a
\* multicast address aborts on the assertion before any socket is created: the
\* socket-creation step never precedes the failing check.
C4_AsStated ==
  BadGroup => cres.res.tag = "Panic" /\ ~HasOp(cres.steps, "socket")

\* C4 amended: the socket is created and given address reuse and the read
\* timeout first; if one of those three calls fails its error is returned, and
\* otherwise the call aborts on the assertion, before the socket joins a group,
\* is bound, or becomes a transport.
C4_AbortBeforeJoinAndBind ==
  BadGroup =>
    /\ cres.res.tag # "Ok"
    /\ cres.fail \notin CreationCalls =>
         /\ cres.res.tag = "Panic"
         /\ Ops(cres.steps) = <<"socket", "set_reuse_address", "set_read_timeout", "assert">>
    /\ cres.fail \in CreationCalls =>
         /\ cres.res = CtorErr(cres.fail)
         /\ ~HasOp(cres.steps, "assert")
    /\ \A op \in {"join_multicast_v4", "set_multicast_loop_v4", "bind", "from_std"} :
         ~HasOp(cres.steps, op)

C4_Witness ==
  /\ BadGroup
  /\ cres.maddr.ip = <<240, 0, 0, 1>>
  /\ cres.res.tag = "Panic"

\* C5: new_reuse tries only the first candidate of the resolved list, with reuse
\* enabled: an empty list fails with the resolution error and binds nothing; a
\* failure on the first candidate is returned with no later candidate tried;
\* success is a Direct transport bound to the first candidate.
C5_OnlyFirstCandidate ==
  cres.ctor = "new_reuse" =>
    LET cands == cres.resolved.addrs
        steps == cres.steps
    IN /\ \A i \in 1..Len(steps) : cands # <<>> /\ steps[i].addr = cands[1]
       /\ Cardinality({i \in 1..Len(steps) : steps[i].op = "bind"}) <= 1
       /\ cands = <<>> => cres.res.tag = "Err" /\ steps = <<>>
       /\ cres.resolved.ok /\ cands = <<>> =>
            cres.res = CtorErr("could not resolve to any address")
       /\ cands # <<>> /\ Failed(steps) => cres.res = CtorErr(steps[Len(steps)].op)
       /\ cands # <<>> /\ cands[1] \in cres.env.inuse => cres.res.tag = "Err"
       /\ cres.res.tag = "Ok" =>
            /\ cres.res = CtorOk("Direct", cands[1])
            /\ Ops(steps) = IF cres.env.unix
                            THEN <<"socket", "set_reuse_port", "set_reuse_address", "bind", "from_std">>
                            ELSE <<"socket", "set_reuse_address", "bind", "from_std">>
       /\ cres.res.tag # "Ok" => cands = <<>> \/ Failed(steps)

C5_Witness ==
  /\ cres.ctor = "new_reuse"
  /\ Len(cres.resolved.addrs) = 2
  /\ cres.resolved.addrs[1] \in cres.env.inuse
  /\ cres.resolved.addrs[2] \notin cres.env.inuse
  /\ cres.env.fail = "-"
  /\ cres.res = CtorErr("bind")

\* C6: new_proxy performs the unauthenticated handshake exactly when the username
\* is empty or all whitespace, the password handshake otherwise; it returns a
\* ProxySocks transport only if that handshake succeeds within ms_timeout
\* milliseconds; it fails with the timeout error if the deadline elapses first
\* and with the negotiation error if the handshake fails first.
C6_ProxyHandshake ==
  cres.ctor = "new_proxy" =>
    LET blank == \A i \in 1..Len(cres.username) : cres.username[i] \in {" ", "\t"}
        intime == cres.hs.took <= cres.ms_timeout
    IN /\ Len(cres.steps) = 1
       /\ cres.steps[1].op = IF blank THEN "connect" ELSE "connect_with_password"
       /\ cres.res.tag = "Ok" <=> intime /\ cres.hs.ok
       /\ cres.res.tag = "Ok" => cres.res.mode = "ProxySocks"
       /\ ~intime => cres.res = CtorErr("timeout")
       /\ intime /\ ~cres.hs.ok => cres.res = CtorErr("proxy")

C6_Witness ==
  /\ cres.ctor = "new_proxy"
  /\ cres.username = <<" ", "\t">>
  /\ cres.steps[1].op = "connect"
  /\ cres.hs.took > cres.ms_timeout
  /\ cres.res = CtorErr("timeout")

====
